---- MODULE Spec2Model ----
(***************************************************************************)
(* Model of src/compiler/generating/llvm.rs: the operand type system       *)
(* (RegisterFormat), the value constructors (Constant, VirtualRegister,    *)
(* LLVMValue), Symbol, and the chained hash table SymbolTable.             *)
(*                                                                         *)
(* A name is the sequence of its characters' code points (hash reads       *)
(* `c as u64`).  A collision chain Option<Box<SymbolTableNode>> is the     *)
(* sequence of the symbols of its nodes, head first; <<>> is None.  The    *)
(* bucket vector is a function on 0 .. capacity-1.                         *)
(***************************************************************************)
EXTENDS Integers, Sequences, FiniteSets, TLC

VARIABLES
    buckets,    \* SymbolTable.buckets
    last,       \* the call that was made last: its arguments and its result
    before,     \* SymbolTable.buckets as they were when that call started
    shadow,     \* progress of the scenario insert(x,v1); insert(x,v2); remove(x)
    fresh,      \* per name: the symbol inserted for it, while only inserts of other names followed
    requested   \* the capacity the table was built with: the argument of new

vars == <<buckets, last, before, shadow, fresh, requested>>

(***************************** bounds ***************************************)

MaxCapacity == 2
MaxEntries == 3
MaxDepth == 2
MaxNameLen == 2
MaxHashCapacity == 8
MaxHashEntries == 1

(***************************** results **************************************)

Ok(v) == [ok |-> TRUE, val |-> v]
Err(e) == [ok |-> FALSE, err |-> e]

SymbolUndefined(name) == [error |-> "SymbolUndefined", name |-> name]
InvalidIdentifier(expected, received) ==
    [error |-> "InvalidIdentifier", expected |-> expected, received |-> received]
InvalidAssignment(received, expected) ==
    [error |-> "InvalidAssignment", received |-> received, expected |-> expected]

(***************************** RegisterFormat *******************************)

Void == [tag |-> "Void"]
Integer == [tag |-> "Integer"]
Boolean == [tag |-> "Boolean"]
Identifier(t) == [tag |-> "Identifier", id_type |-> t]
Pointer(t) == [tag |-> "Pointer", pointee |-> t]

to_pointer(self) == Pointer(self)

\* Variant of can_compare_to that accepts any two operands of one format.
can_compare_toSameFormat(self, other, op) == self = other

can_compare_to(self, other, op) ==
    CASE self.tag = "Integer" /\ other.tag = "Integer" -> TRUE
      [] OTHER -> FALSE

\* Variant of format_type that spells an Identifier as Display does, without the "*".
RECURSIVE format_typeAsDisplay(_)
format_typeAsDisplay(self) ==
    CASE self.tag = "Void" -> "void"
      [] self.tag = "Identifier" -> format_typeAsDisplay(self.id_type)
      [] self.tag = "Integer" -> "i64"
      [] self.tag = "Boolean" -> "i1"
      [] self.tag = "Pointer" -> format_typeAsDisplay(self.pointee) \o "*"

RECURSIVE format_type(_)
format_type(self) ==
    CASE self.tag = "Void" -> "void"
      [] self.tag = "Identifier" -> format_type(self.id_type) \o "*"
      [] self.tag = "Integer" -> "i64"
      [] self.tag = "Boolean" -> "i1"
      [] self.tag = "Pointer" -> format_type(self.pointee) \o "*"

\* Variant of FormatEq that compares the variants and not the payloads.
FormatEqShallow(a, b) == a.tag = b.tag

\* #[derive(PartialEq)]: same variant and, for the two boxed variants, equal payloads.
RECURSIVE FormatEq(_, _)
FormatEq(a, b) ==
    CASE a.tag = "Void" /\ b.tag = "Void" -> TRUE
      [] a.tag = "Integer" /\ b.tag = "Integer" -> TRUE
      [] a.tag = "Boolean" /\ b.tag = "Boolean" -> TRUE
      [] a.tag = "Identifier" /\ b.tag = "Identifier" -> FormatEq(a.id_type, b.id_type)
      [] a.tag = "Pointer" /\ b.tag = "Pointer" -> FormatEq(a.pointee, b.pointee)
      [] OTHER -> FALSE

expect(self, other) ==
    IF FormatEq(self, other)
    THEN Ok(<<>>)
    ELSE Err(InvalidAssignment(other, self))

(***************************** values ***************************************)

ConstantInteger(x) == [variant |-> "Integer", x |-> x]
ConstantFormat(c) == CASE c.variant = "Integer" -> Integer

VirtualRegisterNew(id, format) == [id |-> id, format |-> format]

LLVMVirtualRegister(r) == [variant |-> "VirtualRegister", r |-> r]
LLVMConstant(c) == [variant |-> "Constant", c |-> c]
LLVMNone == [variant |-> "None"]

LLVMValueFormat(v) ==
    CASE v.variant = "None" -> Void
      [] v.variant = "Constant" -> ConstantFormat(v.c)
      [] v.variant = "VirtualRegister" -> v.r.format

Local(name, value) == [name |-> name, value |-> value]

(***************************** SymbolTable **********************************)

SymbolTableNodeNew(symbol, next) == <<symbol>> \o next

new(capacity) == [i \in 0 .. capacity - 1 |-> <<>>]

\* Variant of len that counts the nodes stored in the chains.
RECURSIVE lenStoredOver(_, _)
lenStoredOver(table, S) ==
    IF S = {} THEN 0
    ELSE LET i == CHOOSE j \in S : TRUE
         IN  Len(table[i]) + lenStoredOver(table, S \ {i})

lenStored(table) == lenStoredOver(table, DOMAIN table)

len(table) == Cardinality(DOMAIN table)

prime == 67

\* Variant of HashLoop that never reduces the running hash modulo len.
RECURSIVE HashLoopUnreduced(_, _, _, _, _)
HashLoopUnreduced(name, i, l, pow, h) ==
    IF i > Len(name)
    THEN h
    ELSE HashLoopUnreduced(name, i + 1, l, (pow * prime) % l, h + (name[i] % l) * pow)

\* The loop of hash over name.chars(); every intermediate value is below
\* len * len + len, far inside u64 for any table that fits in memory.
RECURSIVE HashLoop(_, _, _, _, _)
HashLoop(name, i, l, pow, h) ==
    IF i > Len(name)
    THEN h
    ELSE HashLoop(name, i + 1, l, (pow * prime) % l, (h + (name[i] % l) * pow) % l)

hash(table, name) == HashLoop(name, 1, len(table), 1, 0)

\* Variant of insert that replaces a head node of the same name.
insertOverwrite(table, symbol) ==
    LET h == hash(table, symbol.name)
        chain == table[h]
        rest == IF chain # <<>> /\ chain[1].name = symbol.name THEN Tail(chain) ELSE chain
    IN  [table EXCEPT ![h] = <<symbol>> \o rest]

\* Variant of insert that links the new node at the end of the chain.
insertAppend(table, symbol) ==
    LET h == hash(table, symbol.name)
    IN  [table EXCEPT ![h] = Append(table[h], symbol)]

\* Variant of insert that always links into the first bucket.
insertFirstBucket(table, symbol) ==
    [table EXCEPT ![0] = SymbolTableNodeNew(symbol, table[0])]

\* Variant of insert whose new node does not take over the old chain.
insertTruncate(table, symbol) ==
    LET h == hash(table, symbol.name)
    IN  [table EXCEPT ![h] = SymbolTableNodeNew(symbol, <<>>)]

insert(table, symbol) ==
    LET h == hash(table, symbol.name)
        new_symbol == SymbolTableNodeNew(symbol, table[h])
    IN  [table EXCEPT ![h] = new_symbol]

\* while let Some(c) = curr: the node at position i of the chain.
RECURSIVE GetLoop(_, _, _)
GetLoop(chain, i, name) ==
    IF i > Len(chain)
    THEN Err(SymbolUndefined(name))
    ELSE IF name = chain[i].name
         THEN Ok(chain[i])
         ELSE GetLoop(chain, i + 1, name)

get(table, name) == GetLoop(table[hash(table, name)], 1, name)

\* Variant of GetMutLoop that keeps scanning and returns the last match.
GetMutLoopLastMatch(chain, i, name) ==
    LET at == {k \in i .. Len(chain) : chain[k].name = name}
    IN  IF at = {}
        THEN Err(SymbolUndefined(name))
        ELSE Ok(chain[CHOOSE k \in at : \A j \in at : j <= k])

RECURSIVE GetMutLoop(_, _, _)
GetMutLoop(chain, i, name) ==
    IF i > Len(chain)
    THEN Err(SymbolUndefined(name))
    ELSE IF name = chain[i].name
         THEN Ok(chain[i])
         ELSE GetMutLoop(chain, i + 1, name)

get_mut(table, name) == GetMutLoop(table[hash(table, name)], 1, name)

\* Variant of RemoveLoop that inspects the first two nodes only.
RemoveLoopTwoNodes(chain, i, name) ==
    IF i > Len(chain)
    THEN chain
    ELSE IF chain[i].name = name
         THEN SubSeq(chain, 1, i - 1) \o SubSeq(chain, i + 1, Len(chain))
         ELSE IF i + 1 > Len(chain)
              THEN chain
              ELSE IF chain[i + 1].name = name
                   THEN SubSeq(chain, 1, i - 1) \o SubSeq(chain, i + 2, Len(chain))
                   ELSE chain

\* curr is the link in front of position i (the bucket head for i = 1, the next
\* field of node i-1 otherwise); `*curr = next` replaces everything from
\* position i on by the chain `next`.
RECURSIVE RemoveLoop(_, _, _)
RemoveLoop(chain, i, name) ==
    IF i > Len(chain)
    THEN chain
    ELSE IF chain[i].name = name
         THEN SubSeq(chain, 1, i - 1) \o SubSeq(chain, i + 1, Len(chain))
         ELSE IF i + 1 > Len(chain)
              THEN chain
              ELSE IF chain[i + 1].name = name
                   THEN SubSeq(chain, 1, i - 1) \o SubSeq(chain, i + 2, Len(chain))
                   ELSE RemoveLoop(chain, i + 1, name)

\* Variant of the loop in which the else branch does not move curr: the loop then
\* never ends; its iterations are counted until they exceed the chain's length.
RECURSIVE RemoveLoopStuckFor(_, _, _, _)
RemoveLoopStuckFor(chain, i, name, left) ==
    IF i > Len(chain) THEN 0
    ELSE IF chain[i].name = name THEN 1
    ELSE IF i + 1 > Len(chain) THEN 1
    ELSE IF chain[i + 1].name = name THEN 1
    ELSE IF left = 0 THEN 1
    ELSE 1 + RemoveLoopStuckFor(chain, i, name, left - 1)

RemoveLoopStuck(chain, i, name) ==
    LET n == RemoveLoopStuckFor(chain, i, name, Len(chain))
    IN  [iterations |-> n, position |-> i]

\* The iterations of the while loop of remove from position i on, and the
\* position of curr when the loop ends.
RECURSIVE RemoveLoopIterations(_, _, _)
RemoveLoopIterations(chain, i, name) ==
    IF i > Len(chain)
    THEN [iterations |-> 0, position |-> i]
    ELSE IF chain[i].name = name
         THEN [iterations |-> 1, position |-> i]
         ELSE IF i + 1 > Len(chain)
              THEN [iterations |-> 1, position |-> i]
              ELSE IF chain[i + 1].name = name
                   THEN [iterations |-> 1, position |-> i]
                   ELSE LET rest == RemoveLoopIterations(chain, i + 1, name)
                        IN  [iterations |-> 1 + rest.iterations, position |-> rest.position]

\* Variant of remove that unlinks the head of the bucket without comparing names.
removeHead(table, name) ==
    LET h == hash(table, name)
    IN  [table EXCEPT ![h] = IF table[h] = <<>> THEN <<>> ELSE Tail(table[h])]

remove(table, name) ==
    LET h == hash(table, name)
    IN  [table EXCEPT ![h] = RemoveLoop(table[h], 1, name)]

\* Variant of create_local whose second register has the logical format.
create_localSameFormat(table, name, format) ==
    LET value == VirtualRegisterNew(name, format)
        symbol == Local(name, LLVMVirtualRegister(value))
    IN  <<symbol, value>>

create_local(table, name, format) ==
    LET value == VirtualRegisterNew(name, format)
        symbol == Local(name, LLVMVirtualRegister(value))
        pointer == VirtualRegisterNew(name, to_pointer(format))
    IN  <<symbol, pointer>>

(***************************** VirtualRegister::from_identifier *************)

\* super::Identifier: the plain-name variant Symbol(String), and any other variant.
IdentifierSymbol(s) == [variant |-> "Symbol", s |-> s]
IdentifierOther(s) == [variant |-> "Other", s |-> s]

\* Variant of from_identifier that gives the register the resolved format itself.
from_identifierUnwrapped(id, identifier, symbol_table) ==
    IF identifier.variant = "Symbol"
    THEN LET found == get(symbol_table, identifier.s)
         IN  IF found.ok
             THEN Ok(VirtualRegisterNew(id, LLVMValueFormat(found.val.value)))
             ELSE Err(found.err)
    ELSE Err(InvalidIdentifier(<<IdentifierSymbol(<<>>)>>, identifier))

\* Variant of from_identifier that resolves the text of any identifier variant.
from_identifierAnyVariant(id, identifier, symbol_table) ==
    LET found == get(symbol_table, identifier.s)
    IN  IF found.ok
        THEN Ok(VirtualRegisterNew(id, Identifier(LLVMValueFormat(found.val.value))))
        ELSE Err(found.err)

from_identifier(id, identifier, symbol_table) ==
    IF identifier.variant = "Symbol"
    THEN LET found == get(symbol_table, identifier.s)
         IN  IF found.ok
             THEN Ok(VirtualRegisterNew(id, Identifier(LLVMValueFormat(found.val.value))))
             ELSE Err(found.err)
    ELSE Err(InvalidIdentifier(<<IdentifierSymbol(<<>>)>>, identifier))

(***************************** inputs ***************************************)

InsertNames == {<<97>>, <<98>>, <<99>>}
Names == InsertNames \cup {<<>>}

\* Two bindings per inserted name; between them the three variants of LLVMValue.
Symbols ==
    { Local(<<97>>, LLVMVirtualRegister(VirtualRegisterNew(<<97>>, Boolean))),
      Local(<<97>>, LLVMConstant(ConstantInteger(1))),
      Local(<<98>>, LLVMVirtualRegister(VirtualRegisterNew(<<98>>, Integer))),
      Local(<<98>>, LLVMNone),
      Local(<<99>>, LLVMConstant(ConstantInteger(1))),
      Local(<<99>>, LLVMNone) }

Identifiers ==
    {IdentifierSymbol(n) : n \in Names} \cup {IdentifierOther(<<97>>)}

RegisterId == <<116>>

BaseFormats == {Void, Integer, Boolean}

RECURSIVE FormatsUpTo(_)
FormatsUpTo(d) ==
    IF d = 0
    THEN BaseFormats
    ELSE LET S == FormatsUpTo(d - 1)
         IN  S \cup {Identifier(t) : t \in S} \cup {Pointer(t) : t \in S}

Formats == FormatsUpTo(MaxDepth)

\* super::Token: the operator of a comparison.
Tokens == {"Less", "Equal"}

Chars == {0, 97, 233, 1114111}

RECURSIVE NamesUpTo(_)
NamesUpTo(k) ==
    IF k = 0
    THEN {<<>>}
    ELSE LET S == NamesUpTo(k - 1)
         IN  S \cup {Append(n, c) : n \in S, c \in Chars}

HashNames == NamesUpTo(MaxNameLen)

RECURSIVE SumLen(_, _)
SumLen(table, S) ==
    IF S = {} THEN 0
    ELSE LET i == CHOOSE j \in S : TRUE
         IN  Len(table[i]) + SumLen(table, S \ {i})

Entries(table) == SumLen(table, DOMAIN table)

NoSymbol == [name |-> <<0>>, value |-> LLVMNone]

(***************************** state machine ********************************)

Init ==
    /\ \E capacity \in 1 .. MaxCapacity :
          /\ buckets = new(capacity)
          /\ last = [op |-> "new", capacity |-> capacity]
          /\ requested = capacity
    /\ before = buckets
    /\ shadow = [stage |-> 0]
    /\ fresh = [n \in InsertNames |-> NoSymbol]

InsertCall(symbol) ==
    /\ buckets' = insert(buckets, symbol)
    /\ last' = [op |-> "insert", symbol |-> symbol]
    /\ before' = buckets
    /\ shadow' =
          IF shadow.stage \in {1, 2} /\ shadow.name = symbol.name
          THEN [stage |-> 2, name |-> symbol.name, v1 |-> shadow.top, top |-> symbol]
          ELSE [stage |-> 1, name |-> symbol.name, top |-> symbol]
    /\ fresh' = [fresh EXCEPT ![symbol.name] = symbol]
    /\ UNCHANGED requested

Insert(symbol) ==
    /\ Entries(buckets) < MaxEntries
    /\ InsertCall(symbol)

Remove(name) ==
    /\ buckets' = remove(buckets, name)
    /\ last' = [op |-> "remove", name |-> name,
                loop |-> RemoveLoopIterations(buckets[hash(buckets, name)], 1, name)]
    /\ before' = buckets
    /\ shadow' =
          IF shadow.stage = 2 /\ shadow.name = name
          THEN [stage |-> 3, name |-> name, v1 |-> shadow.v1, removed |-> shadow.top]
          ELSE [stage |-> 0]
    /\ fresh' = [n \in InsertNames |-> NoSymbol]
    /\ UNCHANGED requested

Get(name) ==
    /\ last' = [op |-> "get", name |-> name, result |-> get(buckets, name)]
    /\ before' = buckets
    /\ UNCHANGED <<buckets, shadow, fresh, requested>>

GetMut(name) ==
    /\ last' = [op |-> "get_mut", name |-> name, result |-> get_mut(buckets, name)]
    /\ before' = buckets
    /\ UNCHANGED <<buckets, shadow, fresh, requested>>

FromIdentifier(id, identifier) ==
    /\ last' = [op |-> "from_identifier", id |-> id, identifier |-> identifier,
                result |-> from_identifier(id, identifier, buckets)]
    /\ before' = buckets
    /\ UNCHANGED <<buckets, shadow, fresh, requested>>

\* Variant of CreateLocal that also links the new symbol into the table.
CreateLocalBinds(name, format) ==
    /\ last' = [op |-> "create_local", name |-> name, format |-> format,
                result |-> create_local(buckets, name, format)]
    /\ before' = buckets
    /\ buckets' = insert(buckets, create_local(buckets, name, format)[1])
    /\ UNCHANGED <<shadow, fresh, requested>>

CreateLocal(name, format) ==
    /\ last' = [op |-> "create_local", name |-> name, format |-> format,
                result |-> create_local(buckets, name, format)]
    /\ before' = buckets
    /\ UNCHANGED <<buckets, shadow, fresh, requested>>

Hash(name) ==
    /\ last' = [op |-> "hash", name |-> name, result |-> hash(buckets, name)]
    /\ before' = buckets
    /\ UNCHANGED <<buckets, shadow, fresh, requested>>

Expect(self, other) ==
    /\ last' = [op |-> "expect", self |-> self, other |-> other,
                result |-> expect(self, other)]
    /\ before' = buckets
    /\ UNCHANGED <<buckets, shadow, fresh, requested>>

\* The table of one scope: every SymbolTable method, and from_identifier on it.
Next ==
    \/ \E symbol \in Symbols : Insert(symbol)
    \/ \E name \in Names : Remove(name)
    \/ \E name \in Names : Get(name)
    \/ \E name \in Names : GetMut(name)
    \/ \E identifier \in Identifiers : FromIdentifier(RegisterId, identifier)
    \/ \E name \in InsertNames, format \in BaseFormats : CreateLocal(name, format)

Spec == Init /\ [][Next]_vars

\* hash on tables of more capacities and over more names, with a few entries stored.
InitHash ==
    /\ \E capacity \in 1 .. MaxHashCapacity :
          /\ buckets = new(capacity)
          /\ last = [op |-> "new", capacity |-> capacity]
          /\ requested = capacity
    /\ before = buckets
    /\ shadow = [stage |-> 0]
    /\ fresh = [n \in InsertNames |-> NoSymbol]

InsertHash(symbol) ==
    /\ Entries(buckets) < MaxHashEntries
    /\ InsertCall(symbol)

NextHash ==
    \/ \E symbol \in Symbols : InsertHash(symbol)
    \/ \E name \in HashNames : Hash(name)

SpecHash == InitHash /\ [][NextHash]_vars

\* The pure functions of RegisterFormat, and create_local, over nested formats.
InitFormat ==
    /\ buckets = new(1)
    /\ last = [op |-> "new", capacity |-> 1]
    /\ requested = 1
    /\ before = buckets
    /\ shadow = [stage |-> 0]
    /\ fresh = [n \in InsertNames |-> NoSymbol]

NextFormat ==
    \/ \E self \in Formats, other \in Formats : Expect(self, other)
    \/ \E name \in Names, format \in Formats : CreateLocal(name, format)

SpecFormat == InitFormat /\ [][NextFormat]_vars

FormatType(self) ==
    /\ last' = [op |-> "format_type", self |-> self, result |-> format_type(self),
                pointer |-> format_type(to_pointer(self))]
    /\ before' = buckets
    /\ UNCHANGED <<buckets, shadow, fresh, requested>>

CanCompareTo(self, other, op) ==
    /\ last' = [op |-> "can_compare_to", self |-> self, other |-> other, token |-> op,
                result |-> can_compare_to(self, other, op)]
    /\ before' = buckets
    /\ UNCHANGED <<buckets, shadow, fresh, requested>>

\* format_type and can_compare_to applied once to arguments drawn at the start.
InitApply ==
    /\ buckets = new(1)
    /\ requested = 1
    /\ \E self \in Formats, other \in Formats, op \in Tokens :
          last = [op |-> "arguments", self |-> self, other |-> other, token |-> op]
    /\ before = buckets
    /\ shadow = [stage |-> 0]
    /\ fresh = [n \in InsertNames |-> NoSymbol]

NextApply ==
    /\ last.op = "arguments"
    /\ \/ FormatType(last.self)
       \/ CanCompareTo(last.self, last.other, last.token)

SpecApply == InitApply /\ [][NextApply]_vars

(***************************** properties ***********************************)

\* The positions of a chain whose node is named name, and the least of a set of positions.
NamedAt(chain, name) == {i \in 1 .. Len(chain) : chain[i].name = name}
Least(S) == CHOOSE i \in S : \A j \in S : i <= j

RECURSIVE SumNamed(_, _, _)
SumNamed(table, S, name) ==
    IF S = {} THEN 0
    ELSE LET i == CHOOSE j \in S : TRUE
         IN  Cardinality(NamedAt(table[i], name)) + SumNamed(table, S \ {i}, name)

\* How many entries named name the table stores, in whatever bucket.
Stored(table, name) == SumNamed(table, DOMAIN table, name)

\* C1: after insert(x -> v1); insert(x -> v2), get(x) is the entry holding v2, and
\* after one remove(x) it is the entry holding v1; an insert adds an entry named x
\* (it overwrites none) and that remove takes away exactly one.
C1_Shadowing ==
    /\ shadow.stage = 2 => get(buckets, shadow.name) = Ok(shadow.top)
    /\ shadow.stage = 3 => get(buckets, shadow.name) = Ok(shadow.v1)
    /\ (shadow.stage = 3 /\ last.op = "remove") =>
          Stored(buckets, shadow.name) = Stored(before, shadow.name) - 1
    /\ last.op = "insert" =>
          Stored(buckets, last.symbol.name) = Stored(before, last.symbol.name) + 1

C1_Witness ==
    /\ shadow.stage = 3
    /\ last.op = "remove"
    /\ shadow.v1 # shadow.removed
    /\ Len(buckets[hash(buckets, shadow.name)]) >= 2

\* C2: remove(name) leaves get(m) as it was for every other name m, and the number
\* of stored entries drops by exactly one when name had an entry.
C2_RemoveTouchesOnlyName ==
    last.op = "remove" =>
        /\ \A m \in Names \ {last.name} : get(buckets, m) = get(before, m)
        /\ Stored(before, last.name) > 0 => Entries(buckets) = Entries(before) - 1

\* C3: remove of a name with no entry leaves every bucket chain, the number of
\* entries and len() as they were.
C3_RemoveAbsentNoOp ==
    (last.op = "remove" /\ Stored(before, last.name) = 0) =>
        /\ buckets = before
        /\ Entries(buckets) = Entries(before)
        /\ len(buckets) = len(before)

C3_Witness ==
    /\ last.op = "remove"
    /\ Stored(before, last.name) = 0
    /\ Len(before[hash(before, last.name)]) >= 2

\* C4: a symbol inserted, followed only by inserts of other names, is what get of
\* its name returns, name and value unchanged.
C4_InsertThenGet ==
    \A n \in InsertNames : fresh[n] # NoSymbol => get(buckets, n) = Ok(fresh[n])

C4_Witness ==
    \E n \in InsertNames :
        /\ fresh[n] # NoSymbol
        /\ LET chain == buckets[hash(buckets, n)]
           IN  /\ Cardinality(NamedAt(chain, n)) >= 2
               /\ chain[1].name # n

\* C5: when name has an entry, at whatever depth of its chain, remove(name) takes
\* the first one away: get(name) then returns the next entry of that name, or fails
\* with undefined symbol when there was only one.
C5_RemoveAtAnyDepth ==
    (last.op = "remove" /\ Stored(before, last.name) > 0) =>
        LET chain == before[hash(before, last.name)]
            at == NamedAt(chain, last.name)
            rest == at \ {Least(at)}
        IN  /\ at # {}
            /\ get(buckets, last.name) =
                  IF rest = {}
                  THEN Err(SymbolUndefined(last.name))
                  ELSE Ok(chain[Least(rest)])

C5_Witness ==
    /\ last.op = "remove"
    /\ LET at == NamedAt(before[hash(before, last.name)], last.name)
       IN  at # {} /\ Least(at) >= 3
    /\ ~ get(buckets, last.name).ok

RECURSIVE Power(_, _)
Power(b, e) == IF e = 0 THEN 1 ELSE b * Power(b, e - 1)

RECURSIVE WeightedSum(_, _, _)
WeightedSum(name, i, l) ==
    IF i > Len(name) THEN 0
    ELSE (name[i] % l) * Power(prime, i - 1) + WeightedSum(name, i + 1, l)

\* C6: hash(s) lies in 0 .. capacity-1 and is the value that s and the capacity
\* alone determine, whatever the table holds.
C6_HashInRange ==
    /\ \A s \in HashNames :
          /\ hash(buckets, s) \in 0 .. len(buckets) - 1
          /\ hash(buckets, s) \in DOMAIN buckets
          /\ hash(buckets, s) = WeightedSum(s, 1, len(buckets)) % len(buckets)
    /\ last.op = "hash" => last.result = hash(new(len(buckets)), last.name)

C6_Witness ==
    /\ last.op = "hash"
    /\ len(buckets) = 8
    /\ Entries(buckets) > 0
    /\ Len(last.name) = 2
    /\ last.result = 7

\* C7: from_identifier with a plain name n fails with undefined symbol n when n has
\* no entry, and otherwise gives the register with the given id and the format
\* Identifier{F}, F the format of the value of the first entry named n; the table
\* is as it was.
C7_FromIdentifierSymbol ==
    (last.op = "from_identifier" /\ last.identifier.variant = "Symbol") =>
        LET n == last.identifier.s
            chain == buckets[hash(buckets, n)]
            at == NamedAt(chain, n)
            v == chain[Least(at)].value
            F == IF v.variant = "VirtualRegister" THEN v.r.format
                 ELSE IF v.variant = "Constant" THEN [tag |-> "Integer"]
                 ELSE [tag |-> "Void"]
        IN  /\ buckets = before
            /\ IF Stored(buckets, n) = 0
               THEN last.result = Err([error |-> "SymbolUndefined", name |-> n])
               ELSE /\ at # {}
                    /\ last.result =
                          Ok([id |-> last.id, format |-> [tag |-> "Identifier", id_type |-> F]])
                    /\ (shadow.stage = 2 /\ shadow.name = n) =>
                          F = LLVMValueFormat(shadow.top.value)

C7_Witness ==
    /\ last.op = "from_identifier"
    /\ last.result.ok
    /\ shadow.stage = 2
    /\ shadow.name = last.identifier.s
    /\ LLVMValueFormat(shadow.top.value) # LLVMValueFormat(shadow.v1.value)
    /\ last.result.val.format = Identifier(Boolean)

\* C8: from_identifier with an identifier that is not a plain name fails with
\* invalid identifier, carrying the expected plain-name kind and the identifier
\* received, whatever the table holds.
C8_FromIdentifierOther ==
    (last.op = "from_identifier" /\ last.identifier.variant # "Symbol") =>
        /\ ~ last.result.ok
        /\ last.result.err.error = "InvalidIdentifier"
        /\ last.result.err.expected = <<[variant |-> "Symbol", s |-> <<>>]>>
        /\ last.result.err.received = last.identifier
        /\ buckets = before

C8_Witness ==
    /\ last.op = "from_identifier"
    /\ last.identifier.variant # "Symbol"
    /\ Stored(buckets, last.identifier.s) > 0

\* C9: create_local(n, F) returns a Local named n whose value is the register
\* (n, F), and the register (n, Pointer{F}).
C9_CreateLocal ==
    last.op = "create_local" =>
        /\ last.result[1] =
              [name |-> last.name,
               value |-> [variant |-> "VirtualRegister",
                          r |-> [id |-> last.name, format |-> last.format]]]
        /\ last.result[2] =
              [id |-> last.name, format |-> [tag |-> "Pointer", pointee |-> last.format]]
        /\ last.result[2].id = last.result[1].value.r.id
        /\ last.result[2].format.pointee = last.result[1].value.r.format

C9_Witness ==
    /\ last.op = "create_local"
    /\ last.format = Identifier(Pointer(Integer))
    /\ last.name = <<>>

\* C10: a.expect(b) succeeds exactly when a and b are the same format, and fails
\* otherwise with invalid assignment, expected a and received b.
C10_Expect ==
    last.op = "expect" =>
        /\ last.result.ok <=> last.self = last.other
        /\ ~ last.result.ok =>
              last.result.err =
                  [error |-> "InvalidAssignment", expected |-> last.self,
                   received |-> last.other]

C10_Witness ==
    /\ last.op = "expect"
    /\ last.self = Pointer(Identifier(Integer))
    /\ last.other = Pointer(Pointer(Integer))
    /\ ~ last.result.ok

\* C11: len() is the capacity the table was built with, in every reachable state,
\* whatever was inserted or removed; it is not the number of stored entries.
C11_LenIsCapacity ==
    /\ len(buckets) = requested
    /\ DOMAIN buckets = 0 .. requested - 1
    /\ len(before) = requested

C11_Witness ==
    /\ last.op = "remove"
    /\ Entries(before) = 3
    /\ Entries(buckets) = 1
    /\ len(buckets) = 2

\* The reference model of C12: bucket index -> list of <<name, symbol>> pairs, used
\* as a stack.  AsPairs is the list a chain stands for.
AsPairs(table) ==
    [i \in DOMAIN table |-> [k \in 1 .. Len(table[i]) |-> <<table[i][k].name, table[i][k]>>]]

PairsNamed(list, name) == {k \in 1 .. Len(list) : list[k][1] = name}

ModelInsert(model, symbol) ==
    LET b == hash(model, symbol.name)
    IN  [model EXCEPT ![b] = <<(<<symbol.name, symbol>>)>> \o model[b]]

ModelRemove(model, name) ==
    LET b == hash(model, name)
        at == PairsNamed(model[b], name)
    IN  IF at = {}
        THEN model
        ELSE [model EXCEPT ![b] = SubSeq(model[b], 1, Least(at) - 1)
                                    \o SubSeq(model[b], Least(at) + 1, Len(model[b]))]

ModelGet(model, name) ==
    LET b == hash(model, name)
        at == PairsNamed(model[b], name)
    IN  IF at = {}
        THEN Err(SymbolUndefined(name))
        ELSE Ok(model[b][Least(at)][2])

\* C12: every insert, remove and get of the table is the step of the reference
\* model: the chains after the call are the model's lists after its step on the
\* chains before it, and get returns what the model's lookup returns.
C12_RefinesStackModel ==
    /\ last.op = "insert" => AsPairs(buckets) = ModelInsert(AsPairs(before), last.symbol)
    /\ last.op = "remove" => AsPairs(buckets) = ModelRemove(AsPairs(before), last.name)
    /\ last.op = "get" => last.result = ModelGet(AsPairs(buckets), last.name)

RECURSIVE Innermost(_)
Innermost(f) ==
    IF f.tag = "Identifier" THEN Innermost(f.id_type)
    ELSE IF f.tag = "Pointer" THEN Innermost(f.pointee)
    ELSE f

RECURSIVE Nesting(_)
Nesting(f) ==
    IF f.tag = "Identifier" THEN 1 + Nesting(f.id_type)
    ELSE IF f.tag = "Pointer" THEN 1 + Nesting(f.pointee)
    ELSE 0

RECURSIVE Stars(_)
Stars(n) == IF n = 0 THEN "" ELSE "*" \o Stars(n - 1)

\* C13: format_type spells Void "void", Integer "i64", Boolean "i1", and adds one
\* "*" per Pointer or Identifier level; to_pointer adds one "*", and Identifier{t}
\* is spelled as Pointer{t}.
C13_FormatType ==
    last.op = "format_type" =>
        LET f == last.self
            base == IF Innermost(f).tag = "Void" THEN "void"
                    ELSE IF Innermost(f).tag = "Integer" THEN "i64"
                    ELSE "i1"
        IN  /\ last.result = base \o Stars(Nesting(f))
            /\ last.pointer = last.result \o "*"
            /\ f.tag = "Identifier" =>
                  last.result = format_type([tag |-> "Pointer", pointee |-> f.id_type])

C13_Witness ==
    /\ last.op = "format_type"
    /\ last.self = Identifier(Pointer(Integer))
    /\ last.result = "i64**"
    /\ last.pointer = "i64***"

\* C14: a.can_compare_to(b, op) is true exactly when a and b are both Integer,
\* whatever op is.
C14_CanCompareTo ==
    last.op = "can_compare_to" =>
        (last.result <=> (last.self = [tag |-> "Integer"] /\ last.other = [tag |-> "Integer"]))

C14_Witness ==
    /\ last.op = "can_compare_to"
    /\ last.self = Integer
    /\ last.other = Integer
    /\ last.token = "Equal"
    /\ last.result

\* C15: the loop of remove ends after at most as many iterations as the chain has
\* nodes, the name present or not: every iteration that does not return moves curr
\* one node on, so curr stands on a node of the chain at the iteration that returns.
C15_RemoveTerminates ==
    last.op = "remove" =>
        LET chain == before[hash(before, last.name)]
        IN  /\ last.loop.iterations \in 0 .. Len(chain)
            /\ chain = <<>> => last.loop.iterations = 0
            /\ chain # <<>> =>
                  /\ last.loop.position \in 1 .. Len(chain)
                  /\ last.loop.position = last.loop.iterations
            /\ (chain # <<>> /\ Stored(before, last.name) = 0) =>
                  last.loop.iterations = Len(chain)

C15_Witness ==
    /\ last.op = "remove"
    /\ Stored(before, last.name) = 0
    /\ Len(before[hash(before, last.name)]) = 3
    /\ last.loop.iterations = 3

\* What a lookup of name is to return: the first entry of that name in the chain
\* of its bucket, or undefined symbol carrying the name.
FirstNamed(table, name) ==
    LET chain == table[hash(table, name)]
        at == NamedAt(chain, name)
    IN  IF at = {}
        THEN [ok |-> FALSE, err |-> [error |-> "SymbolUndefined", name |-> name]]
        ELSE [ok |-> TRUE, val |-> chain[Least(at)]]

\* C16: get and get_mut return the same in every reachable state, the first entry of
\* the name in its bucket's chain or undefined symbol with that name, and neither
\* changes the chains.
C16_GetAgreesWithGetMut ==
    /\ \A n \in Names :
          /\ get(buckets, n) = get_mut(buckets, n)
          /\ get_mut(buckets, n) = FirstNamed(buckets, n)
    /\ last.op \in {"get", "get_mut"} =>
          /\ buckets = before
          /\ last.result = FirstNamed(before, last.name)

C16_Witness ==
    /\ last.op = "get_mut"
    /\ last.result.ok
    /\ LET chain == buckets[hash(buckets, last.name)]
       IN  /\ Cardinality(NamedAt(chain, last.name)) = 2
           /\ chain[1].name # last.name
           /\ chain[3] # last.result.val

\* C17: every node of bucket i holds a symbol whose name hashes to i, so get(n)
\* fails only when no bucket at all holds an entry named n.
C17_BucketPlacement ==
    /\ \A i \in DOMAIN buckets : \A k \in 1 .. Len(buckets[i]) :
          hash(buckets, buckets[i][k].name) = i
    /\ \A n \in Names : (~ get(buckets, n).ok) <=> (Stored(buckets, n) = 0)

C17_Witness ==
    /\ len(buckets) = 2
    /\ buckets[0] # <<>>
    /\ Len(buckets[1]) = 2
    /\ last.op = "get"
    /\ ~ last.result.ok

\* C18: create_local(n, F) leaves every bucket as it was, so get(n) is what it was
\* (undefined symbol when n was unbound); the returned symbol is what get(n) returns
\* once it has been inserted.
C18_CreateLocalBindsNothing ==
    /\ last.op = "create_local" =>
          /\ buckets = before
          /\ \A n \in Names : get(buckets, n) = get(before, n)
          /\ Stored(before, last.name) = 0 =>
                get(buckets, last.name) =
                    [ok |-> FALSE, err |-> [error |-> "SymbolUndefined", name |-> last.name]]
    /\ \A F \in BaseFormats :
          (last.op = "insert" /\ last.symbol = create_local(before, last.symbol.name, F)[1]) =>
              /\ get(buckets, last.symbol.name) = Ok(last.symbol)
              /\ Stored(buckets, last.symbol.name) = Stored(before, last.symbol.name) + 1

C18_Witness ==
    /\ last.op = "create_local"
    /\ Stored(buckets, last.name) = 0
    /\ Entries(buckets) = 2
    /\ buckets[hash(buckets, last.name)] # <<>>

\* C19: insert(sym) changes the bucket of sym's name only; the chain that was there
\* is, whole and in order, what follows the new head node; get(m) is as before for
\* every other name m, and there is one more entry.
C19_InsertFrame ==
    last.op = "insert" =>
        LET h == hash(before, last.symbol.name)
        IN  /\ \A i \in DOMAIN before \ {h} : buckets[i] = before[i]
            /\ DOMAIN buckets = DOMAIN before
            /\ buckets[h] # <<>>
            /\ Head(buckets[h]) = last.symbol
            /\ Tail(buckets[h]) = before[h]
            /\ \A m \in Names \ {last.symbol.name} : get(buckets, m) = get(before, m)
            /\ Entries(buckets) = Entries(before) + 1

C19_Witness ==
    /\ last.op = "insert"
    /\ len(buckets) = 2
    /\ Len(before[hash(before, last.symbol.name)]) = 2
    /\ before[hash(before, last.symbol.name)][1].name # last.symbol.name
    /\ Entries(buckets) = 3

====
